---- MODULE Spec2Model ----
(***************************************************************************)
(* Model of src/SpecificationPattern.py: the Specification base class, its *)
(* metaclass, the AND / OR / NOT composites, the GreaterThan and           *)
(* NonEmptyString leaves, and the all_of / any_of factories.               *)
(*                                                                         *)
(* Objects live in a heap: heap[n] is the n-th Specification object built, *)
(* errs[n] is its _last_errors dict.  A Python dict is an insertion-ordered *)
(* sequence of [k, v] entries.  A Python str is a sequence of tokens (a    *)
(* literal piece of text, one digit, or one character of a candidate).     *)
(***************************************************************************)
EXTENDS Integers, Sequences, FiniteSets, TLC

VARIABLES heap, errs, last

vars == <<heap, errs, last>>

\* ------------------------------------------------------------------ bounds
MaxNodes == 4
MaxSpecs == 2

\* ------------------------------------------------------------ input domains
Thresholds == {5, 10}

IntCand(i) == [type |-> "int", i |-> i, s |-> <<>>]
StrCand(s) == [type |-> "str", i |-> 0, s |-> s]
NoCand == [type |-> "none", i |-> 0, s |-> <<>>]

Candidates ==
    {IntCand(3), IntCand(7), IntCand(12),
     StrCand(<<>>), StrCand(<<" ">>), StrCand(<<" ", "a">>)}

\* ------------------------------------------------------------------ strings
Digit == <<"0", "1", "2", "3", "4", "5", "6", "7", "8", "9">>

RECURSIVE IntToStr(_)
IntToStr(n) ==
    IF n < 0 THEN <<"-">> \o IntToStr(0 - n)
    ELSE IF n < 10 THEN <<Digit[n + 1]>>
    ELSE IntToStr(n \div 10) \o <<Digit[(n % 10) + 1]>>

\* repr(candidate): decimal digits of an int, the quoted text of a str
Repr(c) ==
    IF c.type = "int" THEN IntToStr(c.i) ELSE <<"'">> \o c.s \o <<"'">>

IsSpace(ch) == ch \in {" ", "\t", "\n"}

RECURSIVE LStrip(_)
LStrip(s) ==
    IF s = <<>> THEN s
    ELSE IF IsSpace(Head(s)) THEN LStrip(Tail(s)) ELSE s

RECURSIVE RStrip(_)
RStrip(s) ==
    IF s = <<>> THEN s
    ELSE IF IsSpace(s[Len(s)]) THEN RStrip(SubSeq(s, 1, Len(s) - 1)) ELSE s

Strip(s) == RStrip(LStrip(s))

\* "\n".join(lines)
RECURSIVE Join(_)
Join(lines) ==
    IF lines = <<>> THEN <<>>
    ELSE IF Len(lines) = 1 THEN lines[1]
    ELSE lines[1] \o <<"\n">> \o Join(Tail(lines))

\* ---------------------------------------------------------------- dict ops
RECURSIVE DictSet(_, _, _)
DictSet(d, k, v) ==
    IF d = <<>> THEN <<[k |-> k, v |-> v]>>
    ELSE IF Head(d).k = k THEN <<[k |-> k, v |-> v]>> \o Tail(d)
    ELSE <<Head(d)>> \o DictSet(Tail(d), k, v)

RECURSIVE DictUpdate(_, _)
DictUpdate(d, other) ==
    IF other = <<>> THEN d
    ELSE DictUpdate(DictSet(d, Head(other).k, Head(other).v), Tail(other))

\* --------------------------------------------------------------- the classes
Kinds == {"GreaterThan", "NonEmptyString", "_AndSpecification",
          "_OrSpecification", "_NotSpecification"}

\* self.__class__.__name__
class_name(node) == node.kind

\* Names hasattr() finds on every class built by SpecificationMeta: the
\* attributes of Specification, which every subclass inherits.
ClassAttrs ==
    {"description", "_include_candidate_in_error", "_auto_log", "__init__",
     "_log", "_log_failure", "is_satisfied_by", "class_name", "errors",
     "explain_failure", "validate", "validate_or_raise", "__and__", "__or__",
     "__invert__", "__call__", "__repr__", "all_of", "any_of"}

HasAttr(kind, name) == kind \in Kinds /\ name \in ClassAttrs

_auto_log == TRUE
_include_candidate_in_error == TRUE

\* SpecificationMeta.__new__: is the class's is_satisfied_by replaced by
\* _log(is_satisfied_by)?
Decorated(kind) ==
    /\ HasAttr(kind, "is_satisfied_by")
    /\ HasAttr(kind, "log")
    /\ _auto_log

\* ----------------------------------------------------------------- objects
Null == 0

NoDescription == <<"No description provided.">>

GreaterThan(threshold) ==
    [kind |-> "GreaterThan", a |-> Null, b |-> Null, threshold |-> threshold,
     description |-> <<"Value greater than ">> \o IntToStr(threshold)]

NonEmptyString ==
    [kind |-> "NonEmptyString", a |-> Null, b |-> Null, threshold |-> 0,
     description |-> <<"Non-empty string">>]

_AndSpecification(spec_a, spec_b) ==
    [kind |-> "_AndSpecification", a |-> spec_a, b |-> spec_b, threshold |-> 0,
     description |-> NoDescription]

_OrSpecification(spec_a, spec_b) ==
    [kind |-> "_OrSpecification", a |-> spec_a, b |-> spec_b, threshold |-> 0,
     description |-> NoDescription]

description_format(d) == <<"NOT(">> \o d \o <<")">>

_NotSpecification(h, spec) ==
    [kind |-> "_NotSpecification", a |-> spec, b |-> Null, threshold |-> 0,
     description |-> description_format(h[spec].description)]

\* The candidate type T of a Specification[T]
RECURSIVE TypeOf(_, _)
TypeOf(h, n) ==
    CASE h[n].kind = "GreaterThan" -> "int"
      [] h[n].kind = "NonEmptyString" -> "str"
      [] OTHER -> TypeOf(h, h[n].a)

\* -------------------------------------------------------------- evaluation
\* An evaluation returns [res: the bool returned, errs: every object's
\* _last_errors after the call].
Ret(res, E) == [res |-> res, errs |-> E]

GreaterThan_is_satisfied_by(node, c) == c.i > node.threshold

NonEmptyString_is_satisfied_by(node, c) == c.s # <<>> /\ Strip(c.s) # <<>>

\* Specification._log_failure
_log_failure(h, E, n, result, c) ==
    IF ~result
    THEN LET msg == h[n].description \o
                    (IF _include_candidate_in_error
                     THEN <<" (got: ">> \o Repr(c) \o <<")">> ELSE <<>>)
         IN [E EXCEPT ![n] = DictSet(E[n], class_name(h[n]), msg)]
    ELSE E

\* _NotSpecification._log_failure
_NotSpecification_log_failure(h, E, n, result, c) ==
    IF ~result
    THEN LET msg == <<"Expected to NOT satisfy: ">> \o h[h[n].a].description \o
                    (IF _include_candidate_in_error
                     THEN <<" (got: ">> \o Repr(c) \o <<")">> ELSE <<>>)
         IN [E EXCEPT ![n] = DictSet(E[n], class_name(h[n]), msg)]
    ELSE E

\* Faulty variant of _AndSpecification.is_satisfied_by: copies the second
\* child's errors also when both children pass
_AndSpecification_updates_on_success(h, n, L, R) ==
    IF ~L.res
    THEN Ret(FALSE, [L.errs EXCEPT ![n] = DictUpdate(L.errs[n], L.errs[h[n].a])])
    ELSE Ret(R.res, [R.errs EXCEPT ![n] = DictUpdate(R.errs[n], R.errs[h[n].b])])

\* Faulty variant of _AndSpecification.is_satisfied_by: evaluates the second
\* child even when the first failed
_AndSpecification_evaluates_both(h, n, L, R) ==
    IF ~L.res
    THEN Ret(FALSE, [R.errs EXCEPT ![n] = DictUpdate(R.errs[n], R.errs[h[n].a])])
    ELSE IF ~R.res
    THEN Ret(FALSE, [R.errs EXCEPT ![n] = DictUpdate(R.errs[n], R.errs[h[n].b])])
    ELSE Ret(TRUE, R.errs)

\* _AndSpecification.is_satisfied_by, given what evaluating the children
\* returns: L for _specs[0] from the entry state, R for _specs[1] from the
\* state L left.
_AndSpecification_is_satisfied_by(h, n, L, R) ==
    IF ~L.res
    THEN Ret(FALSE, [L.errs EXCEPT ![n] = DictUpdate(L.errs[n], L.errs[h[n].a])])
    ELSE IF ~R.res
    THEN Ret(FALSE, [R.errs EXCEPT ![n] = DictUpdate(R.errs[n], R.errs[h[n].b])])
    ELSE Ret(TRUE, R.errs)

\* Faulty variant of _OrSpecification.is_satisfied_by: the second child's
\* success is not returned
_OrSpecification_skips_second(h, n, L, R) ==
    IF L.res THEN Ret(TRUE, L.errs)
    ELSE Ret(FALSE,
             [R.errs EXCEPT ![n] =
                 DictUpdate(DictUpdate(R.errs[n], R.errs[h[n].a]),
                            R.errs[h[n].b])])

\* _OrSpecification.is_satisfied_by
_OrSpecification_is_satisfied_by(h, n, L, R) ==
    IF L.res THEN Ret(TRUE, L.errs)
    ELSE IF R.res THEN Ret(TRUE, R.errs)
    ELSE Ret(FALSE,
             [R.errs EXCEPT ![n] =
                 DictUpdate(DictUpdate(R.errs[n], R.errs[h[n].a]),
                            R.errs[h[n].b])])

\* Faulty variant of _NotSpecification.is_satisfied_by: leaves the logging
\* to the decorator
_NotSpecification_unlogged(h, n, c, I) == Ret(~I.res, I.errs)

\* _NotSpecification.is_satisfied_by
_NotSpecification_is_satisfied_by(h, n, c, I) ==
    LET result == ~I.res
    IN Ret(result,
           IF ~result THEN _NotSpecification_log_failure(h, I.errs, n, result, c) ELSE I.errs)

RECURSIVE is_satisfied_by(_, _, _, _)

\* The is_satisfied_by body each class defines
func(h, E, n, c) ==
    CASE h[n].kind = "GreaterThan" ->
            Ret(GreaterThan_is_satisfied_by(h[n], c), E)
      [] h[n].kind = "NonEmptyString" ->
            Ret(NonEmptyString_is_satisfied_by(h[n], c), E)
      [] h[n].kind = "_AndSpecification" ->
            LET L == is_satisfied_by(h, E, h[n].a, c)
                R == is_satisfied_by(h, L.errs, h[n].b, c)
            IN _AndSpecification_is_satisfied_by(h, n, L, R)
      [] h[n].kind = "_OrSpecification" ->
            LET L == is_satisfied_by(h, E, h[n].a, c)
                R == is_satisfied_by(h, L.errs, h[n].b, c)
            IN _OrSpecification_is_satisfied_by(h, n, L, R)
      [] h[n].kind = "_NotSpecification" ->
            _NotSpecification_is_satisfied_by(h, n, c, is_satisfied_by(h, E, h[n].a, c))

\* Specification._log(func): the wrapper the metaclass would install
wrapper(h, E, n, c) ==
    LET r == func(h, [E EXCEPT ![n] = <<>>], n, c)
    IN Ret(r.res,
           IF h[n].kind = "_NotSpecification"
           THEN _NotSpecification_log_failure(h, r.errs, n, r.res, c)
           ELSE _log_failure(h, r.errs, n, r.res, c))

\* obj.is_satisfied_by(candidate) as the class object resolves it
is_satisfied_by(h, E, n, c) ==
    IF Decorated(h[n].kind) THEN wrapper(h, E, n, c) ELSE func(h, E, n, c)

\* Specification.errors
errors(E, n) == E[n]

\* "\n".join(f"{k}: {v}" for k, v in self._last_errors.items())
ErrorLines(d) == [i \in 1..Len(d) |-> <<d[i].k, ": ">> \o d[i].v]

\* Specification.explain_failure: [text: the str returned, errs]
explain_failure(h, E, n, c) ==
    LET r == is_satisfied_by(h, E, n, c)
    IN IF r.res THEN [text |-> <<>>, errs |-> r.errs]
       ELSE [text |-> Join(ErrorLines(r.errs[n])), errs |-> r.errs]

\* Faulty variant of validate_or_raise: raises with the rule's description
validate_or_raise_description(h, E, n, c) ==
    LET r == is_satisfied_by(h, E, n, c)
    IN IF ~r.res
       THEN [raised |-> TRUE, msg |-> h[n].description, errs |-> r.errs]
       ELSE [raised |-> FALSE, msg |-> <<>>, errs |-> r.errs]

\* Specification.validate_or_raise: [raised, msg: the exception's message, errs]
validate_or_raise(h, E, n, c) ==
    LET r == is_satisfied_by(h, E, n, c)
    IN IF ~r.res
       THEN LET x == explain_failure(h, r.errs, n, c)
            IN [raised |-> TRUE, msg |-> x.text, errs |-> x.errs]
       ELSE [raised |-> FALSE, msg |-> <<>>, errs |-> r.errs]

\* ------------------------------------------------------------------- state
Nodes == 1..Len(heap)

\* What the last call was and what it returned or raised.
Call(op, node, cand, res, raised, msg, specs) ==
    [op |-> op, node |-> node, cand |-> cand, res |-> res, raised |-> raised,
     msg |-> msg, specs |-> specs]

\* The leaves a client has built before composing: two integer rules, the
\* demo's gt5 and gt10
InitInt ==
    /\ heap = <<GreaterThan(5), GreaterThan(10)>>
    /\ errs = <<<<>>, <<>>>>
    /\ last = Call("init", Null, NoCand, TRUE, FALSE, <<>>, <<>>)

\* ... or two string rules
InitStr ==
    /\ heap = <<NonEmptyString, NonEmptyString>>
    /\ errs = <<<<>>, <<>>>>
    /\ last = Call("init", Null, NoCand, TRUE, FALSE, <<>>, <<>>)

Init == InitInt \/ InitStr

\* Specification.__init__ of a new object, which becomes heap[Len(heap) + 1]
New(h, E, node) == [heap |-> Append(h, node), errs |-> Append(E, <<>>)]

\* ----------------------------------------------------------------- actions
\* spec_a & spec_b
And(spec_a, spec_b) ==
    /\ Len(heap) < MaxNodes
    /\ TypeOf(heap, spec_a) = TypeOf(heap, spec_b)
    /\ \E o \in {New(heap, errs, _AndSpecification(spec_a, spec_b))} :
          /\ heap' = o.heap
          /\ errs' = o.errs
          /\ last' = Call("__and__", Len(o.heap), NoCand, TRUE, FALSE, <<>>, <<>>)

\* spec_a | spec_b
Or(spec_a, spec_b) ==
    /\ Len(heap) < MaxNodes
    /\ TypeOf(heap, spec_a) = TypeOf(heap, spec_b)
    /\ \E o \in {New(heap, errs, _OrSpecification(spec_a, spec_b))} :
          /\ heap' = o.heap
          /\ errs' = o.errs
          /\ last' = Call("__or__", Len(o.heap), NoCand, TRUE, FALSE, <<>>, <<>>)

\* ~spec
Invert(spec) ==
    /\ Len(heap) < MaxNodes
    /\ \E o \in {New(heap, errs, _NotSpecification(heap, spec))} :
          /\ heap' = o.heap
          /\ errs' = o.errs
          /\ last' = Call("__invert__", Len(o.heap), NoCand, TRUE, FALSE, <<>>, <<>>)

\* spec.is_satisfied_by(c), spec.validate(c), spec(c)
IsSatisfiedBy(n, c) ==
    /\ c.type = TypeOf(heap, n)
    /\ \E r \in {is_satisfied_by(heap, errs, n, c)} :
          /\ errs' = r.errs
          /\ last' = Call("is_satisfied_by", n, c, r.res, FALSE, <<>>, <<>>)
    /\ UNCHANGED heap

\* spec.explain_failure(c)
ExplainFailure(n, c) ==
    /\ c.type = TypeOf(heap, n)
    /\ \E x \in {explain_failure(heap, errs, n, c)} :
          /\ errs' = x.errs
          /\ last' = Call("explain_failure", n, c, TRUE, FALSE, x.text, <<>>)
    /\ UNCHANGED heap

\* spec.validate_or_raise(c)
ValidateOrRaise(n, c) ==
    /\ c.type = TypeOf(heap, n)
    /\ \E x \in {validate_or_raise(heap, errs, n, c)} :
          /\ errs' = x.errs
          /\ last' = Call("validate_or_raise", n, c, TRUE, x.raised, x.msg, <<>>)
    /\ UNCHANGED heap

\* The loops of all_of and any_of: result &= spec / result |= spec for each
\* spec of specs[1:]
RECURSIVE FoldAnd(_, _, _, _)
FoldAnd(h, E, result, rest) ==
    IF rest = <<>> THEN [raised |-> FALSE, node |-> result, heap |-> h, errs |-> E]
    ELSE LET o == New(h, E, _AndSpecification(result, Head(rest)))
         IN FoldAnd(o.heap, o.errs, Len(o.heap), Tail(rest))

RECURSIVE FoldOr(_, _, _, _)
FoldOr(h, E, result, rest) ==
    IF rest = <<>> THEN [raised |-> FALSE, node |-> result, heap |-> h, errs |-> E]
    ELSE LET o == New(h, E, _OrSpecification(result, Head(rest)))
         IN FoldOr(o.heap, o.errs, Len(o.heap), Tail(rest))

\* Faulty variant of all_of: the loop runs over specs, not specs[1:]
all_of_whole_list(h, E, specs) ==
    IF specs = <<>> THEN [raised |-> TRUE, node |-> Null, heap |-> h, errs |-> E]
    ELSE FoldAnd(h, E, specs[1], specs)

\* Specification.all_of: [raised: ValueError, node: the object returned]
all_of(h, E, specs) ==
    IF specs = <<>> THEN [raised |-> TRUE, node |-> Null, heap |-> h, errs |-> E]
    ELSE FoldAnd(h, E, specs[1], Tail(specs))

\* Specification.any_of
any_of(h, E, specs) ==
    IF specs = <<>> THEN [raised |-> TRUE, node |-> Null, heap |-> h, errs |-> E]
    ELSE FoldOr(h, E, specs[1], Tail(specs))

\* list(specs): the lists of at most k elements of S
RECURSIVE ListsUpTo(_, _)
ListsUpTo(S, k) ==
    IF k = 0 THEN {<<>>}
    ELSE LET shorter == ListsUpTo(S, k - 1)
         IN shorter \cup {Append(sq, n) : sq \in shorter, n \in S}

\* The lists of existing specifications of one candidate type a caller passes;
\* a list of k specifications builds k - 1 new objects
SpecLists ==
    LET room == MaxNodes + 1 - Len(heap)
    IN {sq \in ListsUpTo(Nodes, IF room < MaxSpecs THEN room ELSE MaxSpecs) :
           \A i \in DOMAIN sq : TypeOf(heap, sq[i]) = TypeOf(heap, sq[1])}

\* Specification.all_of(specs)
AllOf(specs) ==
    \E o \in {all_of(heap, errs, specs)} :
       /\ heap' = o.heap
       /\ errs' = o.errs
       /\ last' = Call("all_of", o.node, NoCand, TRUE, o.raised,
                       IF o.raised
                       THEN <<"all_of requires at least one specification">>
                       ELSE <<>>, specs)

\* Specification.any_of(specs)
AnyOf(specs) ==
    \E o \in {any_of(heap, errs, specs)} :
       /\ heap' = o.heap
       /\ errs' = o.errs
       /\ last' = Call("any_of", o.node, NoCand, TRUE, o.raised,
                       IF o.raised
                       THEN <<"any_of requires at least one specification">>
                       ELSE <<>>, specs)

\* Composing existing specifications with the operators
Compose ==
    \/ \E a, b \in Nodes : And(a, b)
    \/ \E a, b \in Nodes : Or(a, b)
    \/ \E a \in Nodes : Invert(a)

\* A client that composes rules and evaluates candidates
NextEval ==
    \/ Compose
    \/ \E n \in Nodes, c \in Candidates : IsSatisfiedBy(n, c)

\* A client that composes rules and validates candidates
NextValidate ==
    \/ Compose
    \/ \E n \in Nodes, c \in Candidates : ValidateOrRaise(n, c)

\* A client that builds rules with the factories and asks for explanations
NextFactory ==
    \/ \E specs \in SpecLists : AllOf(specs)
    \/ \E specs \in SpecLists : AnyOf(specs)
    \/ \E n \in Nodes, c \in Candidates : ExplainFailure(n, c)

Next ==
    \/ Compose
    \/ \E specs \in SpecLists : AllOf(specs)
    \/ \E specs \in SpecLists : AnyOf(specs)
    \/ \E n \in Nodes, c \in Candidates : IsSatisfiedBy(n, c)
    \/ \E n \in Nodes, c \in Candidates : ExplainFailure(n, c)
    \/ \E n \in Nodes, c \in Candidates : ValidateOrRaise(n, c)

SpecEval == Init /\ [][NextEval]_vars
SpecValidate == InitInt /\ [][NextValidate]_vars
SpecFactory == InitInt /\ [][NextFactory]_vars
Spec == Init /\ [][Next]_vars

\* ------------------------------------------------- vocabulary of the claims
\* The logical meaning of a tree for a candidate
RECURSIVE Holds(_, _, _)
Holds(h, n, c) ==
    CASE h[n].kind = "GreaterThan" -> c.i > h[n].threshold
      [] h[n].kind = "NonEmptyString" -> \E i \in DOMAIN c.s : ~IsSpace(c.s[i])
      [] h[n].kind = "_AndSpecification" -> Holds(h, h[n].a, c) /\ Holds(h, h[n].b, c)
      [] h[n].kind = "_OrSpecification" -> Holds(h, h[n].a, c) \/ Holds(h, h[n].b, c)
      [] h[n].kind = "_NotSpecification" -> ~Holds(h, h[n].a, c)

\* The objects of the tree rooted at n
RECURSIVE Subtree(_, _)
Subtree(h, n) ==
    {n} \cup (IF h[n].a = Null THEN {} ELSE Subtree(h, h[n].a))
        \cup (IF h[n].b = Null THEN {} ELSE Subtree(h, h[n].b))

\* The objects whose is_satisfied_by runs when n evaluates c
RECURSIVE Evaluated(_, _, _)
Evaluated(h, n, c) ==
    {n} \cup
    CASE h[n].kind = "_AndSpecification" ->
            Evaluated(h, h[n].a, c) \cup
            (IF Holds(h, h[n].a, c) THEN Evaluated(h, h[n].b, c) ELSE {})
      [] h[n].kind = "_OrSpecification" ->
            Evaluated(h, h[n].a, c) \cup
            (IF Holds(h, h[n].a, c) THEN {} ELSE Evaluated(h, h[n].b, c))
      [] h[n].kind = "_NotSpecification" -> Evaluated(h, h[n].a, c)
      [] OTHER -> {}

\* The objects that return false when n evaluates c
FailedIn(h, n, c) == {m \in Evaluated(h, n, c) : ~Holds(h, m, c)}

\* text occurs in msg
Includes(msg, text) ==
    \E i \in 0..(Len(msg) - Len(text)) : SubSeq(msg, i + 1, i + Len(text)) = text

\* The message an object's class records for a failure on c
FailureMessage(h, n, c) ==
    IF h[n].kind = "_NotSpecification"
    THEN <<"Expected to NOT satisfy: ">> \o h[h[n].a].description \o
         <<" (got: ">> \o Repr(c) \o <<")">>
    ELSE h[n].description \o <<" (got: ">> \o Repr(c) \o <<")">>

Values(d) == {d[i].v : i \in DOMAIN d}

Evaluation == last.op = "is_satisfied_by"
KindOfLast == heap[last.node].kind

\* ------------------------------------------------------------------ claims
\* C1: whenever is_satisfied_by returns false, on a leaf or on a composite,
\* the errors of that specification are non-empty right after the call.
C1_FailureLeavesErrors ==
    (Evaluation /\ ~last.res) => errors(errs, last.node) # <<>>

\* C2: the errors of a node reflect only its most recent evaluation: they are
\* empty after a call on it that returned true, and empty before any
\* evaluation (at the start, and on an object just built).
C2_ErrorsReflectLatestCall ==
    /\ (Evaluation /\ last.res) => errors(errs, last.node) = <<>>
    /\ last.op = "init" => \A n \in Nodes : errors(errs, n) = <<>>
    /\ last.op \in {"__and__", "__or__", "__invert__"} =>
           errors(errs, last.node) = <<>>

\* The demo's rule gt5 & ~gt10
IsBetween5And10(n) ==
    /\ heap[n].kind = "_AndSpecification"
    /\ heap[heap[n].a] = GreaterThan(5)
    /\ heap[heap[n].b].kind = "_NotSpecification"
    /\ heap[heap[heap[n].b].a] = GreaterThan(10)

\* C3: the bool is_satisfied_by returns on a tree of leaves under &, | and ~
\* is the logical combination of the leaf results for the candidate, whatever
\* was evaluated before; GreaterThan(5) & ~GreaterThan(10) is true at 7 and
\* false at 12 and at 3.
C3_ResultIsLogicalCombination ==
    Evaluation =>
        /\ last.res = Holds(heap, last.node, last.cand)
        /\ IsBetween5And10(last.node) => (last.res <=> last.cand.i = 7)

\* C3 happens: gt5 & ~gt10 rejects 3 in a state that holds the errors of an
\* earlier evaluation of 12
C3_Witness ==
    /\ Evaluation
    /\ IsBetween5And10(last.node)
    /\ last.cand.i = 3
    /\ ~last.res
    /\ \E i \in DOMAIN errs[last.node] :
           Includes(errs[last.node][i].v, <<" (got: ">> \o IntToStr(12))

\* C4: whenever an OR composite returns false, its errors hold the failure
\* message of its left child and the failure message of its right child.
C4_OrFailureHoldsBothChildren ==
    (Evaluation /\ KindOfLast = "_OrSpecification" /\ ~last.res) =>
        /\ FailureMessage(heap, heap[last.node].a, last.cand)
               \in Values(errors(errs, last.node))
        /\ FailureMessage(heap, heap[last.node].b, last.cand)
               \in Values(errors(errs, last.node))

\* C5: whenever a NOT composite returns false, its errors hold an entry whose
\* message includes the child's description, and they are not the child's
\* own errors.
C5_NotFailureMentionsChild ==
    (Evaluation /\ KindOfLast = "_NotSpecification" /\ ~last.res) =>
        /\ \E i \in DOMAIN errs[last.node] :
               Includes(errs[last.node][i].v, heap[heap[last.node].a].description)
        /\ errors(errs, last.node) # errors(errs, heap[last.node].a)

\* C5 happens: a NOT over a NOT fails while its child holds errors of an
\* earlier evaluation
C5_Witness ==
    /\ Evaluation
    /\ KindOfLast = "_NotSpecification"
    /\ heap[heap[last.node].a].kind = "_NotSpecification"
    /\ ~last.res
    /\ errs[heap[last.node].a] # <<>>

\* C6: validate_or_raise(c) raises exactly when c does not satisfy the
\* specification, and the message raised is the text explain_failure(c)
\* returns for that candidate, asked before the call or after it.
C6_RaisesExplanation ==
    [][last'.op = "validate_or_raise" =>
          /\ last'.raised <=> ~Holds(heap, last'.node, last'.cand)
          /\ last'.raised =>
                /\ last'.msg = explain_failure(heap, errs, last'.node, last'.cand).text
                /\ last'.msg = explain_failure(heap', errs', last'.node, last'.cand).text
      ]_vars

\* C6 happens: a validation raised a non-empty explanation in a state that
\* held errors of another candidate
C6_Witness ==
    /\ last.op = "validate_or_raise"
    /\ last.raised
    /\ last.msg # <<>>
    /\ ~Includes(last.msg, <<" (got: ">> \o Repr(last.cand))

\* node is the left-to-right fold of specs with the composite kind
RECURSIVE IsFold(_, _, _, _)
IsFold(h, node, specs, kind) ==
    IF Len(specs) = 1 THEN node = specs[1]
    ELSE /\ node \in DOMAIN h
         /\ h[node].kind = kind
         /\ h[node].b = specs[Len(specs)]
         /\ IsFold(h, h[node].a, SubSeq(specs, 1, Len(specs) - 1), kind)

C9_AndShortCircuit ==
    [][(last'.op = "is_satisfied_by"
        /\ heap[last'.node].kind = "_AndSpecification"
        /\ ~Holds(heap, heap[last'.node].a, last'.cand)) =>
          \A m \in Subtree(heap, heap[last'.node].b) : errs'[m] = errs[m]
      ]_vars

\* C9 as amended: when the left child of an AND fails, the right child is not
\* evaluated: the errors of every node of the right subtree that is not also
\* a node of the left subtree are as before the call.
C9_AndShortCircuitFrame ==
    [][(last'.op = "is_satisfied_by"
        /\ heap[last'.node].kind = "_AndSpecification"
        /\ ~Holds(heap, heap[last'.node].a, last'.cand)) =>
          \A m \in Subtree(heap, heap[last'.node].b)
                     \ Subtree(heap, heap[last'.node].a) : errs'[m] = errs[m]
      ]_vars

\* C9 happens: an AND failed on its left child while its right child, a NOT
\* that would have failed on the candidate too, still has no errors
C9_Witness ==
    /\ Evaluation
    /\ KindOfLast = "_AndSpecification"
    /\ ~Holds(heap, heap[last.node].a, last.cand)
    /\ heap[heap[last.node].b].kind = "_NotSpecification"
    /\ ~Holds(heap, heap[last.node].b, last.cand)
    /\ errs[heap[last.node].b] = <<>>

\* C10: whenever an AND composite returns false, its errors are the errors of
\* the child that failed in that call: the left child's if it failed, else
\* the right child's.
C10_AndFailureIsFailedChildErrors ==
    (Evaluation /\ KindOfLast = "_AndSpecification" /\ ~last.res) =>
        errors(errs, last.node) =
            IF ~Holds(heap, heap[last.node].a, last.cand)
            THEN errors(errs, heap[last.node].a)
            ELSE errors(errs, heap[last.node].b)

====
